---------------------------- MODULE Spec2Model ----------------------------
(***************************************************************************)
(* Model of main.py of parsel-tracking: the HTML normalizer                *)
(* parse_myspeedpost_html, the endpoint prober fetch_myspeedpost, the      *)
(* single-endpoint lookup track_speedpost and the two Telegram text        *)
(* handlers track_handler and handle_tracking.                             *)
(*                                                                         *)
(* Text.  A Python str is modelled as a sequence of pieces (TLA+ strings); *)
(* the empty str is <<>>, concatenation is \o.  A piece is an indivisible  *)
(* run of characters: lower() and the substring test `w in s` are computed *)
(* piece by piece from the tables LowerOf and WordsIn, strip() drops the   *)
(* whitespace pieces at both ends.                                         *)
(*                                                                         *)
(* Python values.  None, str, list and dict values are tagged records, so  *)
(* that truthiness (`if x`, `a or b`) is computed as Python computes it.   *)
(***************************************************************************)
EXTENDS Integers, Sequences, FiniteSets, TLC

VARIABLES
    html,       \* parser harness: the body handed to parse_myspeedpost_html
    parsed,     \* parser harness: what parse_myspeedpost_html returned
    ppc,        \* parser harness: "start" | "done" | "off"
    tracking,   \* fetch_myspeedpost: its argument
    responses,  \* the external service: endpoint index -> canned response
    idx,        \* fetch_myspeedpost: index of the endpoint of this iteration
    pc,         \* fetch_myspeedpost: position in the loop body
    resp,       \* fetch_myspeedpost: the response of this iteration
    last_exc,   \* fetch_myspeedpost: last_exc
    result,     \* fetch_myspeedpost: the returned value, once pc = "done"
    log,        \* fetch_myspeedpost: what it did, in order (requests, sleeps, ...)
    text,       \* the inbound chat message (update.message.text)
    handler,    \* which text handler processes the message
    hpc,        \* the handler's position
    ident,      \* the handler's tracking / tracking_no local
    ipresp,     \* the India Post endpoint's canned response (track_speedpost)
    urls,       \* every request URL issued for the message, as <<template, id>>
    replies     \* the replies sent so far for the message, in order

vars == <<html, parsed, ppc, tracking, responses, idx, pc, resp, last_exc,
          result, log, text, handler, hpc, ident, ipresp, urls, replies>>

parserVars == <<html, parsed, ppc>>
probeVars  == <<tracking, responses, idx, pc, resp, last_exc, result, log>>
botVars    == <<text, handler, hpc, ident, ipresp, urls, replies>>

---------------------------------------------------------------------------
(* Python values *)

PyNone    == [t |-> "None"]
PyStr(s)  == [t |-> "str", s |-> s]
PyList(l) == [t |-> "list", l |-> l]

\* bool(v): None, "" and [] are falsy; a non-empty dict is truthy.
Truthy(v) ==
    CASE v.t = "None" -> FALSE
      [] v.t = "str"  -> v.s # <<>>
      [] v.t = "list" -> v.l # <<>>
      [] v.t = "dict" -> TRUE
      [] v.t = "exc"  -> TRUE

\* a or b
PyOr(a, b) == IF Truthy(a) THEN a ELSE b

EmptyDict == [k \in {} |-> k]
DictPut(d, k, v) == [y \in DOMAIN d \cup {k} |-> IF y = k THEN v ELSE d[y]]
DictSetDefault(d, k, v) == IF k \in DOMAIN d THEN d ELSE DictPut(d, k, v)
DictGet(d, k) == IF k \in DOMAIN d THEN d[k] ELSE PyNone

---------------------------------------------------------------------------
(* Text *)

Blank == " "

IsSpace(p) == p = Blank

\* str.lower() of one piece
LowerOf(p) ==
    CASE p = "Status"           -> "status"
      [] p = "Location"         -> "location"
      [] p = "Date"             -> "date"
      [] p = "Time"             -> "time"
      [] p = "Delivered"        -> "delivered"
      [] p = "Out for Delivery" -> "out for delivery"
      [] p = "In Transit"       -> "in transit"
      [] p = "Mumbai"           -> "mumbai"
      [] p = "Booked"           -> "booked"
      [] p = "Booked at origin" -> "booked at origin"
      [] p = "Not Found"        -> "not found"
      [] p = "trk-Status"       -> "trk-status"
      [] p = "lblLocation"      -> "lbllocation"
      [] p = "event-Date"       -> "event-date"
      [] OTHER                  -> p

\* The words the scans look for that occur in a lower-cased piece.
WordsIn(p) ==
    CASE p \in {"status", "current_status", "trk-status"}      -> {"status"}
      [] p \in {"location", "current_location", "lbllocation"} -> {"location"}
      [] p \in {"date", "event-date"}                          -> {"date"}
      [] p = "time"                                            -> {"time"}
      [] p = "datetime"                                        -> {"date", "time"}
      [] p = "delivered"                                       -> {"delivered"}
      [] p = "out for delivery"                                -> {"out for"}
      [] OTHER                                                 -> {}

\* w in s.lower()
ContainsLower(s, w) == \E i \in 1..Len(s) : w \in WordsIn(LowerOf(s[i]))

RECURSIVE LStrip(_)
LStrip(s) == IF s # <<>> /\ IsSpace(Head(s)) THEN LStrip(Tail(s)) ELSE s

RECURSIVE RStrip(_)
RStrip(s) ==
    IF s # <<>> /\ IsSpace(s[Len(s)]) THEN RStrip(SubSeq(s, 1, Len(s) - 1)) ELSE s

\* str.strip()
Strip(s) == RStrip(LStrip(s))

RECURSIVE Flatten(_)
Flatten(ss) == IF ss = <<>> THEN <<>> ELSE Head(ss) \o Flatten(Tail(ss))

\* sep.join(parts)
RECURSIVE Join(_, _)
Join(sep, parts) ==
    IF parts = <<>> THEN <<>>
    ELSE IF Len(parts) = 1 THEN parts[1]
    ELSE parts[1] \o sep \o Join(sep, Tail(parts))

---------------------------------------------------------------------------
(* Documents: what BeautifulSoup(html, "html.parser") makes of a body.     *)
(* A document is its top-level nodes in document order.  A node is an      *)
(* element with a class, an id and text children, or a table of rows of    *)
(* cells; a cell holds one text node.  A text node is a Text.              *)

Elem(class, id, texts) ==
    [tag |-> "div", class |-> class, id |-> id, texts |-> texts, rows |-> <<>>]
Table(rows) ==
    [tag |-> "table", class |-> "", id |-> "", texts |-> <<>>, rows |-> rows]

\* The text nodes below a node, in document order.
NodeTexts(n) == IF n.tag = "table" THEN Flatten(n.rows) ELSE n.texts

RECURSIVE DocTexts(_)
DocTexts(nodes) ==
    IF nodes = <<>> THEN <<>> ELSE NodeTexts(Head(nodes)) \o DocTexts(Tail(nodes))

\* [ln.strip() for ln in soup.get_text(separator="\n").strip().splitlines()
\*  if ln.strip()]: the non-empty trimmed text nodes, in order.
RECURSIVE StrippedNonEmpty(_)
StrippedNonEmpty(ts) ==
    IF ts = <<>> THEN <<>>
    ELSE IF Strip(Head(ts)) # <<>>
         THEN <<Strip(Head(ts))>> \o StrippedNonEmpty(Tail(ts))
         ELSE StrippedNonEmpty(Tail(ts))

LinesOf(nodes) == StrippedNonEmpty(DocTexts(nodes))

\* el.get_text(strip=True): the stripped non-empty text nodes, concatenated.
GetTextStrip(n) == Flatten(StrippedNonEmpty(NodeTexts(n)))

\* td.get_text(" ", strip=True): the same, joined with a space.
CellText(cell) == Join(<<Blank>>, StrippedNonEmpty(<<cell>>))

---------------------------------------------------------------------------
(* parse_myspeedpost_html *)

\* The iteration as it would be with setdefault for all three fields.
ScanLine_SetDefault(lines, i, latest) ==
    LET low  == lines[i]
        more == i + 1 <= Len(lines)
        l1 == IF ContainsLower(low, "status") /\ more
              THEN DictSetDefault(latest, "status", PyStr(lines[i + 1])) ELSE latest
        l2 == IF ContainsLower(low, "location") /\ more
              THEN DictSetDefault(l1, "location", PyStr(lines[i + 1])) ELSE l1
        l3 == IF (ContainsLower(low, "date") \/ ContainsLower(low, "time")) /\ more
              THEN DictSetDefault(l2, "datetime", PyStr(lines[i + 1])) ELSE l2
    IN  l3

\* One iteration of `for i, ln in enumerate(lines)`.
ScanLine(lines, i, latest) ==
    LET low  == lines[i]
        more == i + 1 <= Len(lines)
        l1 == IF ContainsLower(low, "status") /\ more
              THEN DictPut(latest, "status", PyStr(lines[i + 1])) ELSE latest
        l2 == IF ContainsLower(low, "location") /\ more
              THEN DictPut(l1, "location", PyStr(lines[i + 1])) ELSE l1
        l3 == IF (ContainsLower(low, "date") \/ ContainsLower(low, "time")) /\ more
              THEN DictSetDefault(l2, "datetime", PyStr(lines[i + 1])) ELSE l2
    IN  l3

\* The loop over the lines, from line i on.
RECURSIVE ScanFrom(_, _, _)
ScanFrom(lines, i, latest) ==
    IF i > Len(lines) THEN latest
    ELSE ScanFrom(lines, i + 1, ScanLine(lines, i, latest))

LineScan(lines) == ScanFrom(lines, 1, EmptyDict)

\* soup.find(class_=lambda c: c and w in c.lower()): the first node, in
\* document order, whose class contains w; <<>> when there is none.
RECURSIVE FindClass(_, _)
FindClass(nodes, words) ==
    IF nodes = <<>> THEN <<>>
    ELSE IF Head(nodes).class # "" /\ WordsIn(LowerOf(Head(nodes).class)) \cap words # {}
         THEN <<Head(nodes)>>
         ELSE FindClass(Tail(nodes), words)

\* soup.find(id=lambda i: i and w in i.lower())
RECURSIVE FindId(_, _)
FindId(nodes, words) ==
    IF nodes = <<>> THEN <<>>
    ELSE IF Head(nodes).id # "" /\ WordsIn(LowerOf(Head(nodes).id)) \cap words # {}
         THEN <<Head(nodes)>>
         ELSE FindId(Tail(nodes), words)

\* soup.find(class_=...) or soup.find(id=...): a Tag is always truthy.
FindClassOrId(nodes, words) ==
    IF FindClass(nodes, words) # <<>> THEN FindClass(nodes, words)
    ELSE FindId(nodes, words)

\* if not latest.get(key): el = ...; if el: latest[key] = el.get_text(strip=True)
FallbackField(latest, key, found) ==
    IF ~Truthy(DictGet(latest, key)) /\ found # <<>>
    THEN DictPut(latest, key, PyStr(GetTextStrip(found[1])))
    ELSE latest

ClassIdFallback(nodes, latest) ==
    LET l1 == FallbackField(latest, "status", FindClassOrId(nodes, {"status"}))
        l2 == FallbackField(l1, "location", FindClassOrId(nodes, {"location"}))
        l3 == FallbackField(l2, "datetime", FindClass(nodes, {"date", "time"}))
    IN  l3

\* soup.find("table"): the first table of the document
RECURSIVE FindTable(_)
FindTable(nodes) ==
    IF nodes = <<>> THEN <<>>
    ELSE IF Head(nodes).tag = "table" THEN <<Head(nodes)>>
    ELSE FindTable(Tail(nodes))

RECURSIVE CellTexts(_)
CellTexts(row) ==
    IF row = <<>> THEN <<>> ELSE <<CellText(Head(row))>> \o CellTexts(Tail(row))

RECURSIVE DropEmpty(_)
DropEmpty(cols) ==
    IF cols = <<>> THEN <<>>
    ELSE IF Head(cols) # <<>> THEN <<Head(cols)>> \o DropEmpty(Tail(cols))
    ELSE DropEmpty(Tail(cols))

Bullet == <<" \\u2022 ">>

\* for tr in table.find_all("tr"): cols = [...]; if cols and any(c.strip() ...):
\*     history.append(" \u2022 ".join([c for c in cols if c]))
RECURSIVE TableHistory(_)
TableHistory(rows) ==
    IF rows = <<>> THEN <<>>
    ELSE LET cols == CellTexts(Head(rows))
         IN  IF cols # <<>> /\ (\E k \in 1..Len(cols) : Strip(cols[k]) # <<>>)
             THEN <<Join(Bullet, DropEmpty(cols))>> \o TableHistory(Tail(rows))
             ELSE TableHistory(Tail(rows))

EventKeywords ==
    {"delivered", "out for", "received", "bag", "dispatched", "booking",
     "arrived", "scan"}

\* for ln in lines: if any(k in ln.lower() for k in (...)): history.append(ln)
RECURSIVE KeywordHistory(_)
KeywordHistory(lines) ==
    IF lines = <<>> THEN <<>>
    ELSE IF \E k \in EventKeywords : ContainsLower(Head(lines), k)
         THEN <<Head(lines)>> \o KeywordHistory(Tail(lines))
         ELSE KeywordHistory(Tail(lines))

\* The history as it would be if the keyword lines were added to the rows.
History_TableAndKeywords(nodes) ==
    IF FindTable(nodes) # <<>>
    THEN TableHistory(FindTable(nodes)[1].rows) \o KeywordHistory(LinesOf(nodes))
    ELSE KeywordHistory(LinesOf(nodes))

History(nodes) ==
    IF FindTable(nodes) # <<>> THEN TableHistory(FindTable(nodes)[1].rows)
    ELSE KeywordHistory(LinesOf(nodes))

\* if latest or history: return {...}; return None
ParseReturn(latest, history) ==
    IF latest # EmptyDict \/ history # <<>>
    THEN [t |-> "dict",
          status   |-> DictGet(latest, "status"),
          location |-> DictGet(latest, "location"),
          datetime |-> DictGet(latest, "datetime"),
          history  |-> PyList(history)]
    ELSE PyNone

parse_myspeedpost_html(nodes) ==
    ParseReturn(ClassIdFallback(nodes, LineScan(LinesOf(nodes))), History(nodes))

---------------------------------------------------------------------------
(* Response bodies.  A body has the view BeautifulSoup takes of it (nodes,  *)
(* or "rejected" markup on which the parser raises) and the view           *)
(* resp.json() takes of it (a JSON value, or a decoding error).            *)

JsonKeys ==
    <<"status", "current_status", "message", "location", "current_location",
      "datetime", "time", "history", "events">>

\* The text of a JSON value, as json.dumps writes it on one line.
JsonValueText(v) ==
    CASE v.t = "None" -> <<"null">>
      [] v.t = "str"  -> <<"\"">> \o v.s \o <<"\"">>
      [] v.t = "list" -> <<"[">> \o Flatten(v.l) \o <<"]">>

RECURSIVE JsonMembers(_, _)
JsonMembers(obj, k) ==
    IF k > Len(JsonKeys) THEN <<>>
    ELSE IF JsonKeys[k] \in DOMAIN obj
         THEN <<JsonKeys[k], ":">> \o JsonValueText(obj[JsonKeys[k]])
                  \o JsonMembers(obj, k + 1)
         ELSE JsonMembers(obj, k + 1)

JsonText(j) ==
    IF j.t = "dict" THEN <<"{">> \o JsonMembers(j.d, 1) \o <<"}">>
    ELSE JsonValueText(j)

PyDict(d) == [t |-> "dict", d |-> d]

HtmlBody(nodes) == [kind |-> "html", nodes |-> nodes, value |-> PyNone]
TextBody(txt)   == [kind |-> "text", nodes |-> <<Elem("", "", <<txt>>)>>, value |-> PyNone]
JsonBody(j)     == [kind |-> "json", nodes |-> <<Elem("", "", <<JsonText(j)>>)>>, value |-> j]
RejectedBody    == [kind |-> "rejected", nodes |-> <<>>, value |-> PyNone]

\* BeautifulSoup(html, "html.parser") raises on markup the parser rejects.
SoupRaises(body) == body.kind = "rejected"

\* resp.json() raises unless the body is JSON.
JsonRaises(body) == body.kind # "json"

---------------------------------------------------------------------------
(* Bounded inputs of the normalizer *)

MaxNodes == 3

T(p) == <<p>>

PlainNodes ==
    { Elem("", "", <<txt>>) :
        txt \in { T("Status"), T("Location"), T("Date"), T("Time"),
                  <<Blank, "Delivered", Blank>>, T(Blank) } }

ClassedNodes ==
    { Elem("trk-Status", "", <<>>),
      Elem("trk-Status", "", <<T("In Transit")>>),
      Elem("", "lblLocation", <<T("Mumbai")>>),
      Elem("event-Date", "", <<T("01-01-2024")>>) }

TableNodes ==
    { Table(<<>>),
      Table(<< <<T(Blank), T(Blank)>> >>),
      Table(<< <<T("01-01-2024"), T("Mumbai"), T("In Transit")>> >>),
      Table(<< <<T(Blank), T("Out for Delivery")>>, <<T(Blank)>>, <<>> >>),
      Table(<< <<T("Date"), T("Location"), T("Status")>>,
               <<T("01-01-2024"), T(Blank), T("Delivered")>> >>) }

NodeSet == PlainNodes \cup ClassedNodes \cup TableNodes

Docs == UNION { [1..n -> NodeSet] : n \in 0..MaxNodes }

---------------------------------------------------------------------------
(* The normalizer on its own *)

ParserOff == /\ html = RejectedBody /\ parsed = PyNone /\ ppc = "off"
ProbeOff ==
    /\ tracking = <<>> /\ responses = <<>> /\ idx = 0 /\ pc = "off"
    /\ resp = PyNone /\ last_exc = PyNone /\ result = PyNone /\ log = <<>>
BotOff ==
    /\ text = <<>> /\ handler = "none" /\ hpc = "off" /\ ident = <<>>
    /\ ipresp = PyNone /\ urls = <<>> /\ replies = <<>>

InitParse ==
    /\ html \in { HtmlBody(d) : d \in Docs }
    /\ parsed = PyNone
    /\ ppc = "start"
    /\ ProbeOff
    /\ BotOff

\* parsed = parse_myspeedpost_html(html)
Parse ==
    /\ ppc = "start"
    /\ ~SoupRaises(html)
    /\ parsed' = parse_myspeedpost_html(html.nodes)
    /\ ppc' = "done"
    /\ UNCHANGED <<html, probeVars, botVars>>

NextParse == Parse

SpecParse == InitParse /\ [][NextParse]_vars

---------------------------------------------------------------------------
(* fetch_myspeedpost *)

MYSPEEDPOST_ENDPOINTS ==
    <<"https://myspeedpost.com/track?num={}",
      "https://myspeedpost.com/track?number={}",
      "https://myspeedpost.com/track/{}",
      "https://myspeedpost.com/?num={}",
      "https://myspeedpost.com/?awb={}",
      "https://myspeedpost.com/?tracking={}">>

NumEndpoints == Len(MYSPEEDPOST_ENDPOINTS)

\* What client.get(url) does: it raises, or it returns a response.
Raise(name) == [t |-> "exc", name |-> name]
Http(status, ctype, body) ==
    [t |-> "resp", status |-> status, ctype |-> ctype, body |-> body]

\* "application/json" in ctype
IsJsonCtype(ctype) ==
    ctype \in {"application/json", "application/json; charset=utf-8"}

\* endpoint.format(tracking)
Url(template, id) == [template |-> template, id |-> id]

Ev(ev, ep) == [ev |-> ev, ep |-> ep]

\* j.get(a) if a in j else j.get(b)
KeyOr(d, a, b) == IF a \in DOMAIN d THEN d[a] ELSE b

\* The dict as it would be if the first alias present as a key were taken,
\* empty or not.
JsonData_FirstKeyPresent(j) ==
    [t |-> "dict",
     status   |-> KeyOr(j.d, "status", KeyOr(j.d, "current_status",
                                             DictGet(j.d, "message"))),
     location |-> KeyOr(j.d, "location", DictGet(j.d, "current_location")),
     datetime |-> KeyOr(j.d, "datetime", DictGet(j.d, "time")),
     history  |-> KeyOr(j.d, "history", KeyOr(j.d, "events", PyList(<<>>)))]

\* The dict of the JSON fallback.
JsonData(j) ==
    [t |-> "dict",
     status   |-> PyOr(PyOr(DictGet(j.d, "status"), DictGet(j.d, "current_status")),
                       DictGet(j.d, "message")),
     location |-> PyOr(DictGet(j.d, "location"), DictGet(j.d, "current_location")),
     datetime |-> PyOr(DictGet(j.d, "datetime"), DictGet(j.d, "time")),
     history  |-> PyOr(PyOr(DictGet(j.d, "history"), DictGet(j.d, "events")),
                       PyList(<<>>))]

\* if data.get("status") or data.get("history")
JsonDataUsable(data) == Truthy(data.status) \/ Truthy(data.history)

\* The next iteration of `for endpoint in MYSPEEDPOST_ENDPOINTS`.
Advance ==
    /\ idx' = idx + 1
    /\ pc' = "request"
    /\ resp' = PyNone

\* url = endpoint.format(tracking); resp = await client.get(url)
Request ==
    /\ pc = "request"
    /\ idx <= NumEndpoints
    /\ log' = Append(log, Ev("get", idx))
    /\ urls' = Append(urls, Url(MYSPEEDPOST_ENDPOINTS[idx], tracking))
    /\ resp' = responses[idx]
    /\ pc' = IF responses[idx].t = "exc" THEN "except" ELSE "got"
    /\ UNCHANGED <<tracking, responses, idx, last_exc, result>>
    /\ UNCHANGED <<parserVars, text, handler, hpc, ident, ipresp, replies>>

\* The status check as it would be with `break` for `continue`.
StatusMiss_Break ==
    /\ pc = "got"
    /\ resp.status # 200
    /\ idx' = NumEndpoints + 1
    /\ pc' = "request"
    /\ resp' = PyNone
    /\ UNCHANGED <<tracking, responses, last_exc, result, log>>
    /\ UNCHANGED <<parserVars, botVars>>

\* if resp.status_code != 200: continue
StatusMiss ==
    /\ pc = "got"
    /\ resp.status # 200
    /\ Advance
    /\ UNCHANGED <<tracking, responses, last_exc, result, log>>
    /\ UNCHANGED <<parserVars, botVars>>

\* The normalizer's exception as it would be outside the try block.
ParseRaise_Propagates ==
    /\ pc = "got"
    /\ resp.status = 200
    /\ SoupRaises(resp.body)
    /\ resp' = Raise("ParserRejectedMarkup")
    /\ pc' = "raised"
    /\ UNCHANGED <<tracking, responses, idx, last_exc, result, log>>
    /\ UNCHANGED <<parserVars, botVars>>

\* parsed = parse_myspeedpost_html(resp.text) raises: except Exception as e
ParseRaise ==
    /\ pc = "got"
    /\ resp.status = 200
    /\ SoupRaises(resp.body)
    /\ resp' = Raise("ParserRejectedMarkup")
    /\ pc' = "except"
    /\ UNCHANGED <<tracking, responses, idx, last_exc, result, log>>
    /\ UNCHANGED <<parserVars, botVars>>

\* The hit as it would be if the loop kept the result and went on.
ParseHit_NoShortCircuit ==
    /\ pc = "got"
    /\ resp.status = 200
    /\ ~SoupRaises(resp.body)
    /\ Truthy(parse_myspeedpost_html(resp.body.nodes))
    /\ result' = parse_myspeedpost_html(resp.body.nodes)
    /\ Advance
    /\ UNCHANGED <<tracking, responses, last_exc, log>>
    /\ UNCHANGED <<parserVars, botVars>>

\* parsed = parse_myspeedpost_html(resp.text); if parsed: return parsed
ParseHit ==
    /\ pc = "got"
    /\ resp.status = 200
    /\ ~SoupRaises(resp.body)
    /\ Truthy(parse_myspeedpost_html(resp.body.nodes))
    /\ result' = parse_myspeedpost_html(resp.body.nodes)
    /\ pc' = "done"
    /\ UNCHANGED <<tracking, responses, idx, resp, last_exc, log>>
    /\ UNCHANGED <<parserVars, botVars>>

\* parsed is None and "application/json" not in ctype: next endpoint
NotJson ==
    /\ pc = "got"
    /\ resp.status = 200
    /\ ~SoupRaises(resp.body)
    /\ ~Truthy(parse_myspeedpost_html(resp.body.nodes))
    /\ ~IsJsonCtype(resp.ctype)
    /\ Advance
    /\ UNCHANGED <<tracking, responses, last_exc, result, log>>
    /\ UNCHANGED <<parserVars, botVars>>

\* The JSON fallback: j = resp.json(); if isinstance(j, dict): data = {...};
\* if data.get("status") or data.get("history"): return data.  A decoding
\* error is logged by the inner except and the loop goes on.
JsonFallback ==
    /\ pc = "got"
    /\ resp.status = 200
    /\ ~SoupRaises(resp.body)
    /\ ~Truthy(parse_myspeedpost_html(resp.body.nodes))
    /\ IsJsonCtype(resp.ctype)
    /\ log' = Append(log, Ev("json", idx))
    /\ IF /\ ~JsonRaises(resp.body)
          /\ resp.body.value.t = "dict"
          /\ JsonDataUsable(JsonData(resp.body.value))
       THEN /\ result' = JsonData(resp.body.value)
            /\ pc' = "done"
            /\ UNCHANGED <<idx, resp>>
       ELSE /\ Advance
            /\ UNCHANGED result
    /\ UNCHANGED <<tracking, responses, last_exc>>
    /\ UNCHANGED <<parserVars, botVars>>

\* The handler as it would be without the sleep.
ExceptSleep_NoDelay ==
    /\ pc = "except"
    /\ last_exc' = resp
    /\ Advance
    /\ UNCHANGED <<tracking, responses, result, log>>
    /\ UNCHANGED <<parserVars, botVars>>

\* except Exception as e: last_exc = e; await asyncio.sleep(0.3)
ExceptSleep ==
    /\ pc = "except"
    /\ last_exc' = resp
    /\ log' = Append(log, Ev("sleep", idx))
    /\ Advance
    /\ UNCHANGED <<tracking, responses, result>>
    /\ UNCHANGED <<parserVars, botVars>>

\* The list is exhausted: return None
ReturnNone ==
    /\ pc = "request"
    /\ idx > NumEndpoints
    /\ result' = PyNone
    /\ pc' = "done"
    /\ UNCHANGED <<tracking, responses, idx, resp, last_exc, log>>
    /\ UNCHANGED <<parserVars, botVars>>

NextProbe ==
    \/ Request
    \/ StatusMiss
    \/ ParseRaise
    \/ ParseHit
    \/ NotJson
    \/ JsonFallback
    \/ ExceptSleep
    \/ ReturnNone

---------------------------------------------------------------------------
(* Bounded inputs of the prober *)

MaxKeys == 3

Page(txts) == HtmlBody([k \in 1..Len(txts) |-> Elem("", "", <<T(txts[k])>>)])

BookedJson ==
    PyDict([current_status |-> PyStr(T("Booked")),
            events |-> PyList(<<T("Booked at origin")>>)])

\* The answers every endpoint may give.
CommonResponses ==
    { Raise("ConnectError"),
      Http(404, "text/html", TextBody(T("Not Found"))),
      Http(200, "text/html", Page(<<"Status", "Delivered">>)),
      Http(200, "application/json", JsonBody(BookedJson)) }

\* The values a JSON member may have: "" and a text of its own ([] and a
\* one-entry list for the list members); status may also be null, or a text
\* that holds an event keyword.
JsonValues(key) ==
    CASE key = "status"           -> {PyNone, PyStr(<<>>), PyStr(T("In Transit")),
                                      PyStr(T("Delivered"))}
      [] key = "current_status"   -> {PyStr(<<>>), PyStr(T("Booked"))}
      [] key = "message"          -> {PyStr(<<>>), PyStr(T("Not Found"))}
      [] key = "location"         -> {PyStr(<<>>), PyStr(T("Mumbai"))}
      [] key = "current_location" -> {PyStr(<<>>), PyStr(T("Delhi"))}
      [] key = "datetime"         -> {PyStr(<<>>), PyStr(T("01-01-2024"))}
      [] key = "time"             -> {PyStr(<<>>), PyStr(T("10:30"))}
      [] key = "history"          -> {PyList(<<>>), PyList(<<T("In Transit")>>)}
      [] key = "events"           -> {PyList(<<>>), PyList(<<T("Booked at origin")>>)}

JsonKeySet == {JsonKeys[k] : k \in 1..Len(JsonKeys)}

\* The JSON objects with at most MaxKeys members.
JsonObjects ==
    { PyDict(d) :
        d \in UNION { { f \in [ks -> UNION {JsonValues(k) : k \in ks}] :
                          \A k \in ks : f[k] \in JsonValues(k) } :
                      ks \in {x \in SUBSET JsonKeySet : Cardinality(x) <= MaxKeys} } }

\* Answers that need care: a timeout, a page without tracking data, a
\* failure whose body would be usable, markup the parser rejects, an element
\* with the status class and no text, JSON served as text/html, a JSON
\* content type on a body that is not JSON, and a JSON list.
RareResponses ==
    { Raise("ReadTimeout"),
      Http(200, "text/html", Page(<<"Not Found">>)),
      Http(500, "application/json", JsonBody(BookedJson)),
      Http(200, "text/html", RejectedBody),
      Http(200, "text/html", HtmlBody(<<Elem("trk-Status", "", <<>>)>>)),
      Http(200, "text/html", JsonBody(BookedJson)),
      Http(200, "application/json", TextBody(T("Not Found"))),
      Http(200, "application/json", JsonBody(PyList(<<T("Booked at origin")>>))) }

JsonResponses ==
    { Http(200, "application/json; charset=utf-8", JsonBody(j)) : j \in JsonObjects }

\* What the later endpoints answer in the assignments that are not drawn
\* from CommonResponses alone.
Tails ==
    { Http(404, "text/html", TextBody(T("Not Found"))),
      Http(200, "text/html", Page(<<"Status", "Delivered">>)) }

\* The canned responses of the six endpoints: every assignment of common
\* answers; a rare answer first, any common answer second; a JSON object
\* first.
Assignments ==
    [1..NumEndpoints -> CommonResponses]
    \cup { [i \in 1..NumEndpoints |-> IF i = 1 THEN r ELSE IF i = 2 THEN c ELSE t] :
             r \in RareResponses, c \in CommonResponses, t \in Tails }
    \cup { [i \in 1..NumEndpoints |-> IF i = 1 THEN r ELSE t] :
             r \in JsonResponses, t \in Tails }

SampleId == <<"E", "Z", "1", "I", "N">>

InitProbe ==
    /\ ParserOff
    /\ BotOff
    /\ tracking = SampleId
    /\ responses \in Assignments
    /\ idx = 1
    /\ pc = "request"
    /\ resp = PyNone
    /\ last_exc = PyNone
    /\ result = PyNone
    /\ log = <<>>

SpecProbe == InitProbe /\ [][NextProbe]_vars

---------------------------------------------------------------------------
(* Properties of the normalizer (SpecParse) *)

Min(S) == CHOOSE x \in S : \A y \in S : x <= y
Max(S) == CHOOSE x \in S : \A y \in S : x >= y

\* The lines that contain one of the words and have a following line.
TriggerLines(lines, words) ==
    { i \in 1..(Len(lines) - 1) : \E w \in words : ContainsLower(lines[i], w) }

TriggerWords(field) ==
    CASE field = "status"   -> {"status"}
      [] field = "location" -> {"location"}
      [] field = "datetime" -> {"date", "time"}

FieldOf(r, field) ==
    CASE field = "status"   -> r.status
      [] field = "location" -> r.location
      [] field = "datetime" -> r.datetime

Fields == {"status", "location", "datetime"}

\* C8 as stated: each of status, location and datetime is the line that
\* follows the FIRST line containing its trigger word and having a following
\* line (set-if-absent for all three fields).
C8_FirstTriggerWins ==
    ppc = "done" =>
        \A f \in Fields :
            LET lines == LinesOf(html.nodes)
                trig  == TriggerLines(lines, TriggerWords(f))
            IN  trig # {} =>
                    /\ parsed # PyNone
                    /\ FieldOf(parsed, f) = PyStr(lines[Min(trig) + 1])

\* C8 amended: status and location are the line that follows the LAST line
\* containing the trigger word and having a following line (every trigger
\* overwrites); only datetime is the line that follows the FIRST one.
C8_LastTriggerWinsButDatetime ==
    ppc = "done" =>
        \A f \in Fields :
            LET lines == LinesOf(html.nodes)
                trig  == TriggerLines(lines, TriggerWords(f))
                pick  == IF f = "datetime" THEN Min(trig) ELSE Max(trig)
            IN  trig # {} =>
                    /\ parsed # PyNone
                    /\ FieldOf(parsed, f) = PyStr(lines[pick + 1])

\* Two status triggers with different following lines, the later one kept,
\* and two datetime triggers with different following lines, the first kept.
C8_Witness ==
    /\ ppc = "done"
    /\ LET lines == LinesOf(html.nodes)
           st == TriggerLines(lines, {"status"})
           dt == TriggerLines(lines, {"date", "time"})
       IN  /\ Cardinality(st) >= 2
           /\ lines[Min(st) + 1] # lines[Max(st) + 1]
           /\ parsed.status = PyStr(lines[Max(st) + 1])
           /\ Cardinality(dt) >= 2
           /\ lines[Min(dt) + 1] # lines[Max(dt) + 1]
           /\ parsed.datetime = PyStr(lines[Min(dt) + 1])

RowHasText(row) == \E k \in 1..Len(row) : Strip(row[k]) # <<>>
HasTextCell(cell) == Strip(cell) # <<>>
IsEventLine(ln) == \E k \in EventKeywords : ContainsLower(ln, k)
Tables(nodes) == { n \in 1..Len(nodes) : nodes[n].tag = "table" }

\* The history C9 describes: with a table, one entry per row (of the first
\* table) that has a non-empty cell, its non-empty cell texts joined with the
\* bullet; without a table, the lines that contain an event keyword.
C9_History(nodes) ==
    IF Tables(nodes) # {}
    THEN LET rows == SelectSeq(nodes[Min(Tables(nodes))].rows, RowHasText)
         IN  [r \in 1..Len(rows) |->
                 Join(Bullet, [c \in 1..Len(SelectSeq(rows[r], HasTextCell)) |->
                                  Strip(SelectSeq(rows[r], HasTextCell)[c])])]
    ELSE SelectSeq(LinesOf(nodes), IsEventLine)

\* C9: the returned history is derived independently of the three fields:
\* table rows when the document has a table (rows without a non-empty cell
\* skipped, no keyword line added), else the keyword lines verbatim and in
\* document order; nothing is returned only if that history is empty.
C9_HistoryFromTableElseKeywords ==
    ppc = "done" =>
        IF parsed = PyNone THEN C9_History(html.nodes) = <<>>
        ELSE parsed.history = PyList(C9_History(html.nodes))

\* A document with a status line, a keyword line and a table with a kept and
\* a skipped row: the history holds the kept row only.
C9_Witness ==
    /\ ppc = "done"
    /\ Tables(html.nodes) # {}
    /\ SelectSeq(LinesOf(html.nodes), IsEventLine) # <<>>
    /\ LET rows == html.nodes[Min(Tables(html.nodes))].rows
       IN  /\ Len(rows) > Len(SelectSeq(rows, RowHasText))
           /\ parsed.history.l # <<>>
           /\ Len(parsed.history.l) = Len(SelectSeq(rows, RowHasText))
    /\ Truthy(parsed.status)

---------------------------------------------------------------------------
(* Properties of the prober (SpecProbe) *)

\* The endpoints requested so far, in the order of the requests.
RECURSIVE Requested(_)
Requested(l) ==
    IF l = <<>> THEN <<>>
    ELSE IF Head(l).ev = "get" THEN <<Head(l).ep>> \o Requested(Tail(l))
    ELSE Requested(Tail(l))

UpTo(n) == [k \in 1..n |-> k]

\* The first of the aliases whose value in the object is non-empty.
FirstPresent(obj, aliases) ==
    LET present == { k \in 1..Len(aliases) :
                       aliases[k] \in DOMAIN obj /\ Truthy(obj[aliases[k]]) }
    IN  IF present = {} THEN PyNone ELSE obj[aliases[Min(present)]]

\* Whether the HTML normalizer reports absence for a 200 response.
HtmlAbsent(r) ==
    /\ ~SoupRaises(r.body)
    /\ parse_myspeedpost_html(r.body.nodes) = PyNone

\* The record C10 describes for a JSON object.
C10_Record(obj) ==
    [t |-> "dict",
     status   |-> FirstPresent(obj, <<"status", "current_status", "message">>),
     location |-> FirstPresent(obj, <<"location", "current_location">>),
     datetime |-> FirstPresent(obj, <<"datetime", "time">>),
     history  |-> IF FirstPresent(obj, <<"history", "events">>) = PyNone
                  THEN PyList(<<>>)
                  ELSE FirstPresent(obj, <<"history", "events">>)]

\* Equal up to which empty value (None or "") an absent field holds.
SameRecord(a, b) ==
    \A f \in Fields :
        IF Truthy(FieldOf(a, f)) \/ Truthy(FieldOf(b, f))
        THEN FieldOf(a, f) = FieldOf(b, f) ELSE TRUE

\* The present result the normalizer reports for a canned response, PyNone
\* when the response is a miss.
Yield(r) ==
    IF r.t = "exc" \/ r.status # 200 \/ SoupRaises(r.body) THEN PyNone
    ELSE LET p == parse_myspeedpost_html(r.body.nodes)
         IN  IF p # PyNone THEN p
             ELSE IF /\ IsJsonCtype(r.ctype)
                     /\ r.body.kind = "json"
                     /\ r.body.value.t = "dict"
                  THEN LET rec == C10_Record(r.body.value.d)
                       IN  IF Truthy(rec.status) \/ Truthy(rec.history)
                           THEN rec ELSE PyNone
                  ELSE PyNone

\* The endpoints whose canned response yields a present result.
Good == { i \in 1..NumEndpoints : Yield(responses[i]) # PyNone }

\* C1: the call returns the result of the lowest-index endpoint that answers
\* 200 with a present result, whatever the later endpoints hold, and no
\* endpoint after that one is ever requested.
C1_FirstPresentEndpointWins ==
    LET good  == Good
        first == Min(good)
        want  == Yield(responses[first])
    IN  /\ \A k \in 1..Len(log) :
               log[k].ev = "get" /\ good # {} => log[k].ep <= first
        /\ pc = "done" /\ good # {} =>
               /\ result # PyNone
               /\ SameRecord(result, want)
               /\ result.history = want.history
               /\ Requested(log) = UpTo(first)
        /\ pc = "done" /\ good = {} => result = PyNone

\* The third endpoint is the first to yield a result, a later endpoint would
\* yield another one, and the call returned the third endpoint's.
C1_Witness ==
    /\ pc = "done"
    /\ Requested(log) = <<1, 2, 3>>
    /\ Good # {}
    /\ Min(Good) = 3
    /\ \E j \in Good : Yield(responses[j]) # Yield(responses[3])
    /\ result = Yield(responses[3])

IsFailure(r) == r.t = "exc" \/ r.status # 200

\* C2: when every endpoint raises at transport level or answers with a status
\* other than 200, the call returns None after exactly one GET per endpoint,
\* in list order.
C2_TotalMissTriesEachOnce ==
    /\ Requested(log) = UpTo(Len(Requested(log)))
    /\ pc = "done" /\ (\A i \in 1..NumEndpoints : IsFailure(responses[i])) =>
           /\ result = PyNone
           /\ Requested(log) = UpTo(NumEndpoints)

\* Every endpoint failed, some by an exception and some by a status.
C2_Witness ==
    /\ pc = "done"
    /\ \A i \in 1..NumEndpoints : IsFailure(responses[i])
    /\ \E i \in 1..NumEndpoints : responses[i].t = "exc"
    /\ \E i \in 1..NumEndpoints : responses[i].t = "resp"
    /\ result = PyNone
    /\ Len(Requested(log)) = NumEndpoints

AllEmpty(r) ==
    /\ ~Truthy(r.status)
    /\ ~Truthy(r.location)
    /\ ~Truthy(r.datetime)
    /\ ~Truthy(r.history)

\* C3: the call returns None or a result with at least one of status,
\* location, datetime, history non-empty.
C3_NeverAllEmpty ==
    pc = "done" /\ result # PyNone => ~AllEmpty(result)

\* Whether handling endpoint i raises: the request, the HTML normalizer, or
\* the JSON decoding of the fallback.
RaisesAt(r) ==
    \/ r.t = "exc"
    \/ /\ r.t = "resp"
       /\ r.status = 200
       /\ \/ SoupRaises(r.body)
          \/ HtmlAbsent(r) /\ IsJsonCtype(r.ctype) /\ JsonRaises(r.body)

InRequested(i) == \E k \in 1..Len(log) : log[k] = Ev("get", i)

\* C4: an exception raised while requesting endpoint i, normalizing its body
\* or decoding its JSON is a miss of endpoint i only: it never leaves the
\* call, endpoint i+1 is tried next, and the call ends only with a result
\* the normalizer reported or with None once the last endpoint was tried.
C4_ExceptionsAreMisses ==
    /\ pc \in {"request", "got", "except", "done"}
    /\ \A i \in 1..NumEndpoints :
           /\ InRequested(i) /\ RaisesAt(responses[i]) /\ pc = "done" =>
                  /\ i < NumEndpoints => InRequested(i + 1)
                  /\ i = NumEndpoints => result = PyNone
    /\ pc = "done" /\ result = PyNone => Requested(log) = UpTo(NumEndpoints)
    /\ pc = "done" /\ result # PyNone =>
           SameRecord(result, Yield(responses[idx]))

\* A transport error, rejected markup and undecodable JSON were each passed
\* over, and a later endpoint gave the result.
C4_Witness ==
    /\ pc = "done"
    /\ result # PyNone
    /\ idx >= 3
    /\ \E i \in 1..(idx - 1) : responses[i].t = "exc"
    /\ \E i \in 1..(idx - 1) :
           responses[i].t = "resp" /\ responses[i].status = 200
           /\ RaisesAt(responses[i])

\* The positions of the log at which an endpoint after the first is requested.
LaterGets == { k \in 1..Len(log) : log[k].ev = "get" /\ log[k].ep > 1 }

\* C7 as stated: after every missed endpoint, missed by a transport exception
\* or by a status other than 200, the delay takes place before the next
\* request.
C7_DelayAfterEveryMiss ==
    \A k \in LaterGets :
        IsFailure(responses[log[k].ep - 1]) => log[k - 1] = Ev("sleep", log[k].ep - 1)

\* C7 amended: the delay takes place before the next request after an
\* endpoint missed by a transport exception; after a status other than 200
\* the next request follows with no delay.
C7_DelayAfterExceptionOnly ==
    \A k \in LaterGets :
        LET prev == responses[log[k].ep - 1]
        IN  /\ prev.t = "exc" => log[k - 1] = Ev("sleep", log[k].ep - 1)
            /\ prev.t = "resp" /\ prev.status # 200 =>
                   log[k - 1] = Ev("get", log[k].ep - 1)

\* A request that follows a transport exception and its delay, and a request
\* that follows a 404 directly.
C7_Witness ==
    /\ \E k \in LaterGets :
           /\ responses[log[k].ep - 1].t = "exc"
           /\ log[k - 1].ev = "sleep"
    /\ \E k \in LaterGets :
           /\ responses[log[k].ep - 1].t = "resp"
           /\ responses[log[k].ep - 1].status = 404
           /\ log[k - 1].ev = "get"

\* Endpoint i has been dealt with: the loop is past it, or the call returned
\* from it.
Handled(i) == idx > i \/ (idx = i /\ pc = "done")

\* The rule of C10: for a 200 response the JSON fallback is attempted if and only if the
\* HTML normalizer reported absence and the content type indicates JSON; for
\* a JSON object it yields status, location, datetime and history from the
\* first non-empty of their aliases (history else the empty list); the record
\* is returned if its status or history is non-empty, and otherwise the next
\* endpoint is tried.
C10_FallbackRule ==
    \A i \in 1..NumEndpoints :
        LET r == responses[i]
            attempted == \E k \in 1..Len(log) : log[k] = Ev("json", i)
        IN  /\ attempted =>
                   r.t = "resp" /\ r.status = 200 /\ HtmlAbsent(r) /\ IsJsonCtype(r.ctype)
            /\ Handled(i) /\ r.t = "resp" /\ r.status = 200 =>
                   /\ HtmlAbsent(r) /\ IsJsonCtype(r.ctype) => attempted
                   /\ attempted /\ r.body.kind = "json" /\ r.body.value.t = "dict" =>
                          LET rec == C10_Record(r.body.value.d)
                          IN  IF Truthy(rec.status) \/ Truthy(rec.history)
                              THEN /\ idx = i /\ pc = "done"
                                   /\ SameRecord(result, rec)
                                   /\ result.history = rec.history
                              ELSE idx > i
                   /\ attempted /\ ~(r.body.kind = "json" /\ r.body.value.t = "dict") =>
                          idx > i

\* The fallback returned a record whose status is the third alias, the first
\* two being empty.
C10_Witness ==
    /\ pc = "done"
    /\ idx = 1
    /\ log = <<Ev("get", 1), Ev("json", 1)>>
    /\ responses[1].body.value.t = "dict"
    /\ DOMAIN responses[1].body.value.d = {"status", "current_status", "message"}
    /\ result.status = PyStr(T("Not Found"))
    /\ result.history = PyList(<<>>)

\* The example of C10: {"current_status": "Booked", "events": ["Booked at
\* origin"]} served as JSON by the second endpoint after a miss gives status
\* "Booked" and history ["Booked at origin"].
C10_BookedExample ==
    /\ responses[2] = Http(200, "application/json", JsonBody(BookedJson))
    /\ Handled(2)
    /\ Good # {} /\ Min(Good) = 2
    => /\ result.status = PyStr(T("Booked"))
       /\ result.history = PyList(<<T("Booked at origin")>>)

\* C10: the JSON fallback is attempted exactly when the HTML normalizer
\* reported absence on a 200 response with a JSON content type, it maps the
\* aliases as C10_Record does, returns the record when its status or history
\* is non-empty and otherwise lets the next endpoint be tried.
C10_JsonFallback == C10_FallbackRule /\ C10_BookedExample

---------------------------------------------------------------------------
(* The text handlers.  A chat message and an identifier are sequences of    *)
(* characters.  startup_event registers handle_tracking for text messages; *)
(* track_handler is defined beside it and is modelled as a second entry.   *)
(* Sending a reply is taken to succeed; editing the acknowledgement may    *)
(* fail, which track_handler answers with a fresh reply.                   *)

\* str.upper() of one character
UpperChar(c) ==
    CASE c = "e" -> "E"
      [] c = "z" -> "Z"
      [] c = "i" -> "I"
      [] c = "n" -> "N"
      [] OTHER   -> c

Upper(s) == [k \in 1..Len(s) |-> UpperChar(s[k])]

\* s.replace(" ", "")
RECURSIVE RemoveSpaces(_)
RemoveSpaces(s) ==
    IF s = <<>> THEN <<>>
    ELSE IF Head(s) = Blank THEN RemoveSpaces(Tail(s))
    ELSE <<Head(s)>> \o RemoveSpaces(Tail(s))

INDIAPOST_URL ==
    "https://www.indiapost.gov.in/_layouts/15/IPSAPI/Tracking/TrackConsignment.aspx?consignment={}"

MinLength == 8

\* What track_speedpost does with the endpoint's answer: it raises, it
\* returns None, or it returns the dict of the first consignment.
track_speedpost(r, tracking_no) ==
    IF r.t = "exc" THEN r
    ELSE IF r.body.kind # "json" THEN Raise("JSONDecodeError")
    ELSE IF r.body.value.t # "dict" THEN Raise("AttributeError")
    ELSE IF ~Truthy(DictGet(r.body.value.d, "consignment")) THEN PyNone
    ELSE LET item == DictGet(r.body.value.d, "consignment").l[1]
         IN  IF item.t # "dict" THEN Raise("AttributeError")
             ELSE [t |-> "dict",
                   number   |-> tracking_no,
                   status   |-> IF "Status" \in DOMAIN item.d THEN item.d["Status"]
                                ELSE PyStr(T("Not available")),
                   location |-> IF "OfficeName" \in DOMAIN item.d THEN item.d["OfficeName"]
                                ELSE PyStr(T("Not available")),
                   time     |-> IF "EventDate" \in DOMAIN item.d THEN item.d["EventDate"]
                                ELSE PyStr(T("Not available"))]

\* track_handler: raw = (update.message.text or "").strip(); if not raw:
\* reply and return
TrackHandlerEmpty ==
    /\ handler = "track_handler"
    /\ hpc = "recv"
    /\ Strip(text) = <<>>
    /\ replies' = Append(replies, "usage")
    /\ hpc' = "done"
    /\ UNCHANGED <<text, handler, ident, ipresp, urls>>
    /\ UNCHANGED <<parserVars, probeVars>>

\* track_handler: tracking = raw.upper().replace(" ", ""); ack = reply_text(...);
\* parsed = await fetch_myspeedpost(tracking)
TrackHandlerStart ==
    /\ handler = "track_handler"
    /\ hpc = "recv"
    /\ Strip(text) # <<>>
    /\ ident' = RemoveSpaces(Upper(Strip(text)))
    /\ replies' = Append(replies, "ack")
    /\ hpc' = "fetching"
    /\ tracking' = RemoveSpaces(Upper(Strip(text)))
    /\ idx' = 1
    /\ pc' = "request"
    /\ UNCHANGED <<text, handler, ipresp, urls>>
    /\ UNCHANGED <<parserVars, responses, resp, last_exc, result, log>>

\* ack.edit_text(m), and reply with m when the edit raises
EditOrReply(m) ==
    \/ replies' = [replies EXCEPT ![Len(replies)] = m]
    \/ replies' = Append(replies, m)

\* track_handler: if not parsed: not-found message; return
TrackHandlerNotFound ==
    /\ handler = "track_handler"
    /\ hpc = "fetching"
    /\ pc = "done"
    /\ ~Truthy(result)
    /\ EditOrReply("notfound")
    /\ hpc' = "done"
    /\ UNCHANGED <<text, handler, ident, ipresp, urls>>
    /\ UNCHANGED <<parserVars, probeVars>>

\* track_handler: the formatted result
TrackHandlerResult ==
    /\ handler = "track_handler"
    /\ hpc = "fetching"
    /\ pc = "done"
    /\ Truthy(result)
    /\ EditOrReply("result")
    /\ hpc' = "done"
    /\ UNCHANGED <<text, handler, ident, ipresp, urls>>
    /\ UNCHANGED <<parserVars, probeVars>>

\* handle_tracking: tracking_no = update.message.text.strip();
\* if len(tracking_no) < 8: reply and return
HandleTrackingShort ==
    /\ handler = "handle_tracking"
    /\ hpc = "recv"
    /\ Len(Strip(text)) < MinLength
    /\ ident' = Strip(text)
    /\ replies' = Append(replies, "invalid")
    /\ hpc' = "done"
    /\ UNCHANGED <<text, handler, ipresp, urls>>
    /\ UNCHANGED <<parserVars, probeVars>>

\* handle_tracking: the acknowledgement, then track_speedpost's
\* response = await client.get(url)
HandleTrackingStart ==
    /\ handler = "handle_tracking"
    /\ hpc = "recv"
    /\ Len(Strip(text)) >= MinLength
    /\ ident' = Strip(text)
    /\ replies' = Append(replies, "ack")
    /\ urls' = Append(urls, Url(INDIAPOST_URL, Strip(text)))
    /\ hpc' = "lookup"
    /\ UNCHANGED <<text, handler, ipresp>>
    /\ UNCHANGED <<parserVars, probeVars>>

\* handle_tracking: track_speedpost raises; nothing catches it
HandleTrackingRaises ==
    /\ handler = "handle_tracking"
    /\ hpc = "lookup"
    /\ track_speedpost(ipresp, ident).t = "exc"
    /\ hpc' = "raised"
    /\ UNCHANGED <<text, handler, ident, ipresp, urls, replies>>
    /\ UNCHANGED <<parserVars, probeVars>>

\* handle_tracking: if not result: reply and return
HandleTrackingNotFound ==
    /\ handler = "handle_tracking"
    /\ hpc = "lookup"
    /\ track_speedpost(ipresp, ident) = PyNone
    /\ replies' = Append(replies, "notfound")
    /\ hpc' = "done"
    /\ UNCHANGED <<text, handler, ident, ipresp, urls>>
    /\ UNCHANGED <<parserVars, probeVars>>

\* handle_tracking: reply_markdown(reply)
HandleTrackingResult ==
    /\ handler = "handle_tracking"
    /\ hpc = "lookup"
    /\ track_speedpost(ipresp, ident).t = "dict"
    /\ replies' = Append(replies, "result")
    /\ hpc' = "done"
    /\ UNCHANGED <<text, handler, ident, ipresp, urls>>
    /\ UNCHANGED <<parserVars, probeVars>>

NextBot ==
    \/ TrackHandlerEmpty
    \/ TrackHandlerStart
    \/ TrackHandlerNotFound
    \/ TrackHandlerResult
    \/ HandleTrackingShort
    \/ HandleTrackingStart
    \/ HandleTrackingRaises
    \/ HandleTrackingNotFound
    \/ HandleTrackingResult
    \/ NextProbe

---------------------------------------------------------------------------
(* Bounded inputs of the handlers *)

MaxChunks == 3

Chunks ==
    { <<"e", "z">>, <<"E", "Z">>, <<"1", "2", "3", "4", "5", "6", "7", "8", "9">>,
      <<"i", "n">>, <<Blank>> }

Pads == { <<>>, <<Blank>> }

\* The chat messages: up to MaxChunks chunks, with or without a blank at
\* either end.
Messages ==
    { a \o Flatten(cs) \o b :
        a \in Pads, b \in Pads,
        cs \in UNION { [1..n -> Chunks] : n \in 1..MaxChunks } }

ConsignmentItem ==
    PyDict([Status |-> PyStr(T("Delivered")), OfficeName |-> PyStr(T("Mumbai"))])

\* The answers of the India Post endpoint.  track_speedpost never looks at
\* the markup of a body, so the JSON bodies are given by their value.
IndiaPostJson(j) == [kind |-> "json", nodes |-> <<>>, value |-> j]

IndiaPostResponses ==
    { Raise("ConnectError"),
      Raise("ReadTimeout"),
      Http(503, "text/html", TextBody(T("Not Found"))),
      Http(200, "application/json", IndiaPostJson(PyList(<<>>))),
      Http(200, "application/json", IndiaPostJson(PyDict(EmptyDict))),
      Http(200, "application/json",
           IndiaPostJson(PyDict([consignment |-> PyList(<<>>)]))),
      Http(200, "application/json",
           IndiaPostJson(PyDict([consignment |-> PyList(<<ConsignmentItem>>)]))) }

\* The answers of the myspeedpost endpoints: the same answer from all.
UniformAssignments ==
    { [i \in 1..NumEndpoints |-> c] :
        c \in CommonResponses
               \cup { Http(200, "text/html", RejectedBody),
                      Http(200, "text/html", Page(<<"Not Found">>)) } }

InitBot ==
    /\ ParserOff
    /\ text \in Messages
    /\ handler \in {"track_handler", "handle_tracking"}
    /\ hpc = "recv"
    /\ ident = <<>>
    /\ urls = <<>>
    /\ replies = <<>>
    /\ IF handler = "track_handler"
       THEN /\ responses \in UniformAssignments
            /\ ipresp = PyNone
       ELSE /\ responses = <<>>
            /\ ipresp \in IndiaPostResponses
    /\ tracking = <<>>
    /\ idx = 0
    /\ pc = "off"
    /\ resp = PyNone
    /\ last_exc = PyNone
    /\ result = PyNone
    /\ log = <<>>

SpecBot == InitBot /\ [][NextBot]_vars

---------------------------------------------------------------------------
(* Properties of the handlers (SpecBot) *)

IsLowerChar(c) == UpperChar(c) # c

\* C5: every request URL issued for a message carries the normalized form
\* of the user's text: upper case, no surrounding whitespace, no spaces.
C5_UrlsCarryNormalizedId ==
    \A k \in 1..Len(urls) :
        /\ urls[k].id = RemoveSpaces(Upper(Strip(text)))
        /\ \A c \in 1..Len(urls[k].id) :
               ~IsLowerChar(urls[k].id[c]) /\ urls[k].id[c] # Blank

\* C6: a handler that started a lookup ends, without an exception, after a
\* final reply that is the formatted result or the not-found message.
C6_EveryLookupIsAnswered ==
    /\ hpc # "raised"
    /\ hpc = "done" /\ urls # <<>> =>
           replies[Len(replies)] \in {"result", "notfound"}

===========================================================================
